---- MODULE Spec2Model ----
(***************************************************************************)
(* Model of the priority-queue batched inference scheduler of              *)
(* kubernetes_rag/chatgpt/cpp/inference_scheduler.cpp.                     *)
(*                                                                         *)
(* Threads: the caller (main) that constructs, starts, shuts down and      *)
(* prints; producer threads that call enqueue(); the worker threads        *)
(* running worker_loop().  mu_ / lat_mu_ hold the id of the worker that    *)
(* owns the mutex (0: free); the critical sections of enqueue() and        *)
(* shutdown() contain no blocking call and are taken as one step.          *)
(***************************************************************************)
EXTENDS Integers, Sequences, FiniteSets

VARIABLES
    num_workers,        \* InferenceScheduler::num_workers_
    batch_size,         \* InferenceScheduler::batch_size_
    shutdown_,          \* std::atomic<bool> shutdown_
    total_processed_,   \* std::atomic<int> total_processed_
    queue_,             \* std::priority_queue<InferenceRequest> queue_
    latencies_,         \* std::deque<double> latencies_
    mu_,                \* owner of mu_ (0: free)
    lat_mu_,            \* owner of lat_mu_ (0: free)
    wpc,                \* position of each worker thread in worker_loop
    batch,              \* worker_loop's local vector batch
    done_time,          \* worker_loop's local done_time
    mainpc,             \* position of the caller thread
    calls,              \* the enqueue() calls in progress: the request and the position
    submitted,          \* number of enqueue() calls begun so far
    recorded,           \* history: recorded[u] = latency samples request u has contributed
    late,               \* history: some enqueue() call was not complete when shutdown() was called
    clock,              \* std::chrono::steady_clock
    spurious,           \* history: spurious wakeups counted so far
    report              \* what print_stats prints: processed, p50, p95, p99

vars == <<num_workers, batch_size, shutdown_, total_processed_, queue_,
          latencies_, mu_, lat_mu_, wpc, batch, done_time, mainpc, calls,
          submitted, recorded, late, clock, spurious, report>>

(***************************************************************************)
(* Bounds of the model.                                                    *)
(***************************************************************************)
MaxRequests == 2
MaxBatch == 2
MaxSamples == 4
MaxLatency == 3
MaxSpurious == 1
MaxClock == 1
LiveRequests == 1
ClockRequests == 1

\* main's tok_dist lower end: the token count the driver's requests carry here
MinTokens == 50

\* 0.02 ms per token, in microseconds
MicrosPerToken == 20

\* the constructor takes any int: non-positive values are inputs too
WorkerInputs == {0 - 1, 0, 1, 2}
BatchInputs == (0 - 1) .. MaxBatch
\* the threads start() can create for these inputs
Workers == {w \in WorkerInputs : w >= 1}
\* two urgency levels out of main's prio_dist
PrioInputs == {1, 2}
TokInputs == {MinTokens}

NoReq == [uid |-> 0, id |-> 0, priority |-> 0, token_count |-> 0, enqueue_time_ms |-> 0]
NoReport == [processed |-> 0, p50 |-> 0, p95 |-> 0, p99 |-> 0]

(***************************************************************************)
(* Pure helpers.                                                           *)
(***************************************************************************)
Min(a, b) == IF a <= b THEN a ELSE b

\* now_ms(): the monotonic clock's reading
now_ms == clock

\* faulty variant: the comparison turned around (a min-heap)
Less_Reversed(a, o) == a.priority > o.priority

\* InferenceRequest::operator<
Less(a, o) == a.priority < o.priority

\* priority_queue::top(): an element no other element is greater than; which
\* one among equals is the heap's business
TopSet(q) == {r \in q : \A o \in q : ~Less(r, o)}

\* the condition-variable predicate of worker_loop
WaitPred == queue_ # {} \/ shutdown_

\* faulty variant: exit on shutdown_ alone, pending requests or not
ExitCond_IgnoresQueue == shutdown_

\* worker_loop's exit test
ExitCond == shutdown_ /\ queue_ = {}

\* faulty variant: <= for <
PullCond_OffByOne(w) == queue_ # {} /\ Len(batch[w]) <= batch_size

\* faulty variant: the loop stops after one request
PullCond_SingleItem(w) == queue_ # {} /\ Len(batch[w]) < Min(batch_size, 1)

\* the pull loop's condition
PullCond(w) == queue_ # {} /\ Len(batch[w]) < batch_size

\* faulty variant: the difference taken the wrong way round
RECURSIVE BatchLatencies_Swapped(_, _)
BatchLatencies_Swapped(b, done) ==
    IF b = <<>> THEN <<>>
    ELSE <<Head(b).enqueue_time_ms - done>> \o
         BatchLatencies_Swapped(Tail(b), done)

\* the latency samples of a batch, in batch order
RECURSIVE BatchLatencies(_, _)
BatchLatencies(b, done) ==
    IF b = <<>> THEN <<>>
    ELSE <<done - Head(b).enqueue_time_ms>> \o BatchLatencies(Tail(b), done)

\* total_tokens: the sum of token_count over the batch, as the loop adds it
RECURSIVE TotalTokens(_)
TotalTokens(b) ==
    IF b = <<>> THEN 0 ELSE Head(b).token_count + TotalTokens(Tail(b))

\* static_cast<int>(sim_ms * 1000) with sim_ms = total_tokens * 0.02: the
\* microseconds the worker sleeps for the batch
SimMicros(b) == TotalTokens(b) * MicrosPerToken

\* how many elements of batch b are request u
Occurrences(b, u) == Cardinality({i \in DOMAIN b : b[i].uid = u})

\* std::sort, ascending: insertion into a sorted prefix
RECURSIVE Insert(_, _)
Insert(x, s) ==
    IF s = <<>> THEN <<x>>
    ELSE IF x <= Head(s) THEN <<x>> \o s
    ELSE <<Head(s)>> \o Insert(x, Tail(s))

RECURSIVE Sort(_)
Sort(s) == IF s = <<>> THEN <<>> ELSE Insert(Head(s), Sort(Tail(s)))

\* faulty variant: the index taken over n - 1 instead of n
PctIndex_NMinusOne(p100, n) == Min((p100 * (n - 1)) \div 100, n - 1)

\* static_cast<size_t>(p * n), p given in hundredths, then std::min with n - 1
PctIndex(p100, n) == Min((p100 * n) \div 100, n - 1)

\* print_stats' lambda pct
Pct(sorted_lat, p100) ==
    IF sorted_lat = <<>> THEN 0
    ELSE sorted_lat[PctIndex(p100, Len(sorted_lat)) + 1]

(***************************************************************************)
(* Initial state: a scheduler about to be constructed with any arguments.  *)
(***************************************************************************)
Init ==
    /\ num_workers \in WorkerInputs
    /\ batch_size \in BatchInputs
    /\ shutdown_ = FALSE
    /\ total_processed_ = 0
    /\ queue_ = {}
    /\ latencies_ = <<>>
    /\ mu_ = 0
    /\ lat_mu_ = 0
    /\ wpc = [w \in Workers |-> "unstarted"]
    /\ batch = [w \in Workers |-> <<>>]
    /\ done_time = [w \in Workers |-> 0]
    /\ mainpc = "construct"
    /\ calls = {}
    /\ submitted = 0
    /\ recorded = <<>>
    /\ late = FALSE
    /\ clock = 0
    /\ spurious = 0
    /\ report = NoReport

(***************************************************************************)
(* The caller thread.                                                      *)
(***************************************************************************)
\* InferenceScheduler(num_workers, batch_size): stores its arguments
Construct ==
    /\ mainpc = "construct"
    /\ mainpc' = "start"
    /\ UNCHANGED <<num_workers, batch_size, shutdown_, total_processed_, queue_,
                   latencies_, mu_, lat_mu_, wpc, batch, done_time, calls,
                   submitted, recorded, late, clock, spurious, report>>

\* start(): one iteration of the loop creating worker i
StartWorker ==
    /\ mainpc = "start"
    /\ \E i \in Workers :
        /\ i <= num_workers
        /\ wpc[i] = "unstarted"
        /\ \A j \in Workers : j < i => wpc[j] # "unstarted"
        /\ wpc' = [wpc EXCEPT ![i] = "lock"]
    /\ UNCHANGED <<num_workers, batch_size, shutdown_, total_processed_, queue_,
                   latencies_, mu_, lat_mu_, batch, done_time, mainpc, calls,
                   submitted, recorded, late, clock, spurious, report>>

\* start(): the loop ends
StartReturn ==
    /\ mainpc = "start"
    /\ \A i \in Workers : i <= num_workers => wpc[i] # "unstarted"
    /\ mainpc' = "run"
    /\ UNCHANGED <<num_workers, batch_size, shutdown_, total_processed_, queue_,
                   latencies_, mu_, lat_mu_, wpc, batch, done_time, calls,
                   submitted, recorded, late, clock, spurious, report>>

\* the caller calls shutdown()
CallShutdown ==
    /\ mainpc = "run"
    /\ mainpc' = "shutdown"
    /\ late' = (late \/ calls # {})
    /\ UNCHANGED <<num_workers, batch_size, shutdown_, total_processed_, queue_,
                   latencies_, mu_, lat_mu_, wpc, batch, done_time, calls,
                   submitted, recorded, clock, spurious, report>>

\* faulty variant: signaling shutdown discards the pending requests
SetShutdown_ClearsQueue ==
    /\ mainpc = "shutdown"
    /\ mu_ = 0
    /\ shutdown_' = TRUE
    /\ queue_' = {}
    /\ mainpc' = "notify_all"
    /\ UNCHANGED <<num_workers, batch_size, total_processed_,
                   latencies_, mu_, lat_mu_, wpc, batch, done_time, calls,
                   submitted, recorded, late, clock, spurious, report>>

\* shutdown(): lock_guard on mu_, shutdown_ = true
SetShutdown ==
    /\ mainpc = "shutdown"
    /\ mu_ = 0
    /\ shutdown_' = TRUE
    /\ mainpc' = "notify_all"
    /\ UNCHANGED <<num_workers, batch_size, total_processed_, queue_,
                   latencies_, mu_, lat_mu_, wpc, batch, done_time, calls,
                   submitted, recorded, late, clock, spurious, report>>

\* faulty variant: notify_one() where notify_all() is needed
NotifyAll_AsNotifyOne ==
    /\ mainpc = "notify_all"
    /\ IF \E w \in Workers : wpc[w] = "blocked"
       THEN \E w \in Workers :
                /\ wpc[w] = "blocked"
                /\ wpc' = [wpc EXCEPT ![w] = "woken"]
       ELSE wpc' = wpc
    /\ mainpc' = "join"
    /\ UNCHANGED <<num_workers, batch_size, shutdown_, total_processed_, queue_,
                   latencies_, mu_, lat_mu_, batch, done_time, calls,
                   submitted, recorded, late, clock, spurious, report>>

\* shutdown(): cv_.notify_all()
NotifyAll ==
    /\ mainpc = "notify_all"
    /\ wpc' = [w \in Workers |-> IF wpc[w] = "blocked" THEN "woken" ELSE wpc[w]]
    /\ mainpc' = "join"
    /\ UNCHANGED <<num_workers, batch_size, shutdown_, total_processed_, queue_,
                   latencies_, mu_, lat_mu_, batch, done_time, calls,
                   submitted, recorded, late, clock, spurious, report>>

\* faulty variant: shutdown() returns without joining the threads
JoinWorkers_NoWait ==
    /\ mainpc = "join"
    /\ mainpc' = "joined"
    /\ UNCHANGED <<num_workers, batch_size, shutdown_, total_processed_, queue_,
                   latencies_, mu_, lat_mu_, wpc, batch, done_time, calls,
                   submitted, recorded, late, clock, spurious, report>>

\* shutdown(): the join loop returns once every created thread has ended
JoinWorkers ==
    /\ mainpc = "join"
    /\ \A w \in Workers : w <= num_workers => wpc[w] = "terminated"
    /\ mainpc' = "joined"
    /\ UNCHANGED <<num_workers, batch_size, shutdown_, total_processed_, queue_,
                   latencies_, mu_, lat_mu_, wpc, batch, done_time, calls,
                   submitted, recorded, late, clock, spurious, report>>

\* print_stats(): copy latencies_, sort, index
PrintStats ==
    /\ mainpc = "joined"
    /\ LET sorted_lat == Sort(latencies_)
       IN report' = [processed |-> total_processed_,
                     p50 |-> Pct(sorted_lat, 50),
                     p95 |-> Pct(sorted_lat, 95),
                     p99 |-> Pct(sorted_lat, 99)]
    /\ mainpc' = "done"
    /\ UNCHANGED <<num_workers, batch_size, shutdown_, total_processed_, queue_,
                   latencies_, mu_, lat_mu_, wpc, batch, done_time, calls,
                   submitted, recorded, late, clock, spurious>>

(***************************************************************************)
(* Producers: enqueue(req), called from any thread, any number of calls in  *)
(* progress at a time.                                                     *)
(***************************************************************************)
\* the call and req.enqueue_time_ms = now_ms(); the caller builds the request,
\* its id drawn from ids and its token count from toks; max caps the number
\* of calls
BeginEnqueueWith(ids, max, toks) ==
    /\ mainpc \notin {"construct", "start"}
    /\ submitted < max
    /\ \E i \in ids, pr \in PrioInputs, tk \in toks :
        calls' = calls \cup
            {[req |-> [uid |-> submitted + 1, id |-> i, priority |-> pr,
                       token_count |-> tk, enqueue_time_ms |-> now_ms],
              pc |-> "push"]}
    /\ submitted' = submitted + 1
    /\ recorded' = Append(recorded, 0)
    /\ late' = (late \/ mainpc # "run")
    /\ UNCHANGED <<num_workers, batch_size, shutdown_, total_processed_, queue_,
                   latencies_, mu_, lat_mu_, wpc, batch, done_time, mainpc,
                   clock, spurious, report>>

\* enqueue() of a request with one of the driver's token counts
BeginEnqueue(ids, max) == BeginEnqueueWith(ids, max, TokInputs)

\* lock_guard on mu_, queue_.push(req)
Push(c) ==
    /\ c.pc = "push"
    /\ mu_ = 0
    /\ queue_' = queue_ \cup {c.req}
    /\ calls' = (calls \ {c}) \cup {[c EXCEPT !.pc = "notify"]}
    /\ UNCHANGED <<num_workers, batch_size, shutdown_, total_processed_,
                   latencies_, mu_, lat_mu_, wpc, batch, done_time, mainpc,
                   submitted, recorded, late, clock, spurious, report>>

\* faulty variant: enqueue() returns without notifying
NotifyOne_Missing(c) ==
    /\ c.pc = "notify"
    /\ calls' = calls \ {c}
    /\ UNCHANGED <<num_workers, batch_size, shutdown_, total_processed_, queue_,
                   latencies_, mu_, lat_mu_, wpc, batch, done_time, mainpc,
                   submitted, recorded, late, clock, spurious, report>>

\* cv_.notify_one(): one of the threads blocked in the wait, if any; the call returns
NotifyOne(c) ==
    /\ c.pc = "notify"
    /\ IF \E w \in Workers : wpc[w] = "blocked"
       THEN \E w \in Workers :
                /\ wpc[w] = "blocked"
                /\ wpc' = [wpc EXCEPT ![w] = "woken"]
       ELSE wpc' = wpc
    /\ calls' = calls \ {c}
    /\ UNCHANGED <<num_workers, batch_size, shutdown_, total_processed_, queue_,
                   latencies_, mu_, lat_mu_, batch, done_time, mainpc,
                   submitted, recorded, late, clock, spurious, report>>

(***************************************************************************)
(* Workers: worker_loop.                                                   *)
(***************************************************************************)
\* unique_lock on mu_
Lock(w) ==
    /\ wpc[w] = "lock"
    /\ mu_ = 0
    /\ mu_' = w
    /\ wpc' = [wpc EXCEPT ![w] = "wait"]
    /\ UNCHANGED <<num_workers, batch_size, shutdown_, total_processed_, queue_,
                   latencies_, lat_mu_, batch, done_time, mainpc, calls,
                   submitted, recorded, late, clock, spurious, report>>

\* cv_.wait(lk, pred): the predicate is tested with mu_ held; when it is false
\* the thread releases mu_ and blocks in one step
Wait(w) ==
    /\ wpc[w] = "wait"
    /\ mu_ = w
    /\ IF WaitPred
       THEN /\ wpc' = [wpc EXCEPT ![w] = "check"]
            /\ mu_' = mu_
       ELSE /\ wpc' = [wpc EXCEPT ![w] = "blocked"]
            /\ mu_' = 0
    /\ UNCHANGED <<num_workers, batch_size, shutdown_, total_processed_, queue_,
                   latencies_, lat_mu_, batch, done_time, mainpc, calls,
                   submitted, recorded, late, clock, spurious, report>>

\* a wait may return with no notification (spurious wakeup); counted ones
\* are limited to MaxSpurious
SpuriousWakeup(w, counted) ==
    /\ wpc[w] = "blocked"
    /\ counted => spurious < MaxSpurious
    /\ spurious' = (IF counted THEN spurious + 1 ELSE spurious)
    /\ wpc' = [wpc EXCEPT ![w] = "woken"]
    /\ UNCHANGED <<num_workers, batch_size, shutdown_, total_processed_, queue_,
                   latencies_, mu_, lat_mu_, batch, done_time, mainpc, calls,
                   submitted, recorded, late, clock, report>>

\* the woken thread takes mu_ again and tests the predicate again
Wakeup(w) ==
    /\ wpc[w] = "woken"
    /\ mu_ = 0
    /\ mu_' = w
    /\ wpc' = [wpc EXCEPT ![w] = "wait"]
    /\ UNCHANGED <<num_workers, batch_size, shutdown_, total_processed_, queue_,
                   latencies_, lat_mu_, batch, done_time, mainpc, calls,
                   submitted, recorded, late, clock, spurious, report>>

\* if (shutdown_ && queue_.empty()) break;
CheckExit(w) ==
    /\ wpc[w] = "check"
    /\ mu_ = w
    /\ IF ExitCond
       THEN /\ wpc' = [wpc EXCEPT ![w] = "terminated"]
            /\ mu_' = 0
       ELSE /\ wpc' = [wpc EXCEPT ![w] = "pull"]
            /\ mu_' = mu_
    /\ UNCHANGED <<num_workers, batch_size, shutdown_, total_processed_, queue_,
                   latencies_, lat_mu_, batch, done_time, mainpc, calls,
                   submitted, recorded, late, clock, spurious, report>>

\* faulty variant: queue_.pop() left out
Pull_NoPop(w) ==
    /\ wpc[w] = "pull"
    /\ mu_ = w
    /\ PullCond(w)
    /\ \E r \in TopSet(queue_) : batch' = [batch EXCEPT ![w] = Append(@, r)]
    /\ UNCHANGED <<num_workers, batch_size, shutdown_, total_processed_, queue_,
                   latencies_, mu_, lat_mu_, wpc, done_time, mainpc, calls,
                   submitted, recorded, late, clock, spurious, report>>

\* one iteration of the pull loop: batch.push_back(queue_.top()); queue_.pop();
Pull(w) ==
    /\ wpc[w] = "pull"
    /\ mu_ = w
    /\ PullCond(w)
    /\ \E r \in TopSet(queue_) :
        /\ batch' = [batch EXCEPT ![w] = Append(@, r)]
        /\ queue_' = queue_ \ {r}
    /\ UNCHANGED <<num_workers, batch_size, shutdown_, total_processed_,
                   latencies_, mu_, lat_mu_, wpc, done_time, mainpc, calls,
                   submitted, recorded, late, clock, spurious, report>>

\* faulty variant: the worker leaves the pull loop still holding mu_
PullDone_KeepsLock(w) ==
    /\ wpc[w] = "pull"
    /\ mu_ = w
    /\ ~PullCond(w)
    /\ wpc' = [wpc EXCEPT ![w] = IF batch[w] = <<>> THEN "lock" ELSE "sleep"]
    /\ UNCHANGED <<num_workers, batch_size, shutdown_, total_processed_, queue_,
                   latencies_, mu_, lat_mu_, batch, done_time, mainpc, calls,
                   submitted, recorded, late, clock, spurious, report>>

\* the pull loop ends, mu_ is released; if (batch.empty()) continue;
PullDone(w) ==
    /\ wpc[w] = "pull"
    /\ mu_ = w
    /\ ~PullCond(w)
    /\ mu_' = 0
    /\ wpc' = [wpc EXCEPT ![w] = IF batch[w] = <<>> THEN "lock" ELSE "sleep"]
    /\ UNCHANGED <<num_workers, batch_size, shutdown_, total_processed_, queue_,
                   latencies_, lat_mu_, batch, done_time, mainpc, calls,
                   submitted, recorded, late, clock, spurious, report>>

\* the simulated inference sleep ends; done_time = now_ms()
Process(w) ==
    /\ wpc[w] = "sleep"
    /\ done_time' = [done_time EXCEPT ![w] = now_ms]
    /\ wpc' = [wpc EXCEPT ![w] = "record"]
    /\ UNCHANGED <<num_workers, batch_size, shutdown_, total_processed_, queue_,
                   latencies_, mu_, lat_mu_, batch, mainpc, calls,
                   submitted, recorded, late, clock, spurious, report>>

\* faulty variant: the samples are recorded under mu_ as well as lat_mu_
RecordLock_UnderQueueLock(w) ==
    /\ wpc[w] = "record"
    /\ lat_mu_ = 0
    /\ mu_ = 0
    /\ lat_mu_' = w
    /\ mu_' = w
    /\ wpc' = [wpc EXCEPT ![w] = "append"]
    /\ UNCHANGED <<num_workers, batch_size, shutdown_, total_processed_, queue_,
                   latencies_, batch, done_time, mainpc, calls,
                   submitted, recorded, late, clock, spurious, report>>

\* lock_guard on lat_mu_
RecordLock(w) ==
    /\ wpc[w] = "record"
    /\ lat_mu_ = 0
    /\ lat_mu_' = w
    /\ wpc' = [wpc EXCEPT ![w] = "append"]
    /\ UNCHANGED <<num_workers, batch_size, shutdown_, total_processed_, queue_,
                   latencies_, mu_, batch, done_time, mainpc, calls,
                   submitted, recorded, late, clock, spurious, report>>

\* faulty variant: only the first request of the batch gets a sample
RecordBatch_FirstOnly(w) ==
    /\ wpc[w] = "append"
    /\ lat_mu_ = w
    /\ latencies_' = latencies_ \o
                        BatchLatencies(SubSeq(batch[w], 1, 1), done_time[w])
    /\ recorded' = [u \in DOMAIN recorded |->
                        recorded[u] + Occurrences(SubSeq(batch[w], 1, 1), u)]
    /\ lat_mu_' = 0
    /\ wpc' = [wpc EXCEPT ![w] = "count"]
    /\ UNCHANGED <<num_workers, batch_size, shutdown_, total_processed_, queue_,
                   mu_, batch, done_time, mainpc, calls,
                   submitted, late, clock, spurious, report>>

\* latencies_.push_back(done_time - r.enqueue_time_ms) for the batch; unlock
RecordBatch(w) ==
    /\ wpc[w] = "append"
    /\ lat_mu_ = w
    /\ latencies_' = latencies_ \o BatchLatencies(batch[w], done_time[w])
    /\ recorded' = [u \in DOMAIN recorded |-> recorded[u] + Occurrences(batch[w], u)]
    /\ lat_mu_' = 0
    /\ wpc' = [wpc EXCEPT ![w] = "count"]
    /\ UNCHANGED <<num_workers, batch_size, shutdown_, total_processed_, queue_,
                   mu_, batch, done_time, mainpc, calls,
                   submitted, late, clock, spurious, report>>

\* faulty variant: the counter incremented once per batch
Count_One(w) ==
    /\ wpc[w] = "count"
    /\ total_processed_' = total_processed_ + 1
    /\ batch' = [batch EXCEPT ![w] = <<>>]
    /\ done_time' = [done_time EXCEPT ![w] = 0]
    /\ wpc' = [wpc EXCEPT ![w] = "lock"]
    /\ UNCHANGED <<num_workers, batch_size, shutdown_, queue_,
                   latencies_, mu_, lat_mu_, mainpc, calls,
                   submitted, recorded, late, clock, spurious, report>>

\* total_processed_ += batch.size(); back to the loop's top: batch.clear()
Count(w) ==
    /\ wpc[w] = "count"
    /\ total_processed_' = total_processed_ + Len(batch[w])
    /\ batch' = [batch EXCEPT ![w] = <<>>]
    /\ done_time' = [done_time EXCEPT ![w] = 0]
    /\ wpc' = [wpc EXCEPT ![w] = "lock"]
    /\ UNCHANGED <<num_workers, batch_size, shutdown_, queue_,
                   latencies_, mu_, lat_mu_, mainpc, calls,
                   submitted, recorded, late, clock, spurious, report>>

(***************************************************************************)
(* Specifications.                                                         *)
(***************************************************************************)
MainStep ==
    \/ Construct
    \/ StartWorker
    \/ StartReturn
    \/ CallShutdown
    \/ SetShutdown
    \/ NotifyAll
    \/ JoinWorkers
    \/ PrintStats

WorkerStep(w) ==
    \/ Lock(w)
    \/ Wait(w)
    \/ Wakeup(w)
    \/ CheckExit(w)
    \/ Pull(w)
    \/ PullDone(w)
    \/ Process(w)
    \/ RecordLock(w)
    \/ RecordBatch(w)
    \/ Count(w)

\* the driver of main(): request i carries id i
DriverEnqueue == BeginEnqueue({submitted}, MaxRequests)

Next ==
    \/ MainStep
    \/ DriverEnqueue
    \/ \E c \in calls : Push(c) \/ NotifyOne(c)
    \/ \E w \in Workers : WorkerStep(w) \/ SpuriousWakeup(w, FALSE)

Spec == Init /\ [][Next]_vars

\* any caller of the public enqueue(): the id is whatever the caller passes
ApiIds == {0, 1}
ApiEnqueue == BeginEnqueue(ApiIds, MaxRequests)

NextApi ==
    \/ MainStep
    \/ ApiEnqueue
    \/ \E c \in calls : Push(c) \/ NotifyOne(c)
    \/ \E w \in Workers : WorkerStep(w) \/ SpuriousWakeup(w, FALSE)

SpecApi == Init /\ [][NextApi]_vars

\* callers whose requests carry any token count: negative, zero, positive
AnyTokens == {0 - MinTokens, 0, MinTokens}
TokenEnqueue == BeginEnqueueWith({submitted}, MaxRequests, AnyTokens)

NextTokens ==
    \/ MainStep
    \/ TokenEnqueue
    \/ \E c \in calls : Push(c) \/ NotifyOne(c)
    \/ \E w \in Workers : WorkerStep(w) \/ SpuriousWakeup(w, FALSE)

SpecTokens == Init /\ [][NextTokens]_vars

(***************************************************************************)
(* The scheduler with time passing: the steady clock advances between any  *)
(* two steps, and never goes back.                                         *)
(***************************************************************************)
\* a millisecond passes on std::chrono::steady_clock
Tick ==
    /\ clock < MaxClock
    /\ clock' = clock + 1
    /\ UNCHANGED <<num_workers, batch_size, shutdown_, total_processed_, queue_,
                   latencies_, mu_, lat_mu_, wpc, batch, done_time, mainpc,
                   calls, submitted, recorded, late, spurious, report>>

ClockEnqueue == BeginEnqueue({submitted}, ClockRequests)

NextClock ==
    \/ MainStep
    \/ Tick
    \/ ClockEnqueue
    \/ \E c \in calls : Push(c) \/ NotifyOne(c)
    \/ \E w \in Workers : WorkerStep(w) \/ SpuriousWakeup(w, FALSE)

SpecClock == Init /\ [][NextClock]_vars

(***************************************************************************)
(* print_stats() called by the driver thread while the workers run.  The   *)
(* copy of latencies_ takes no lock, so a worker may be inside its         *)
(* push_back loop during it; what such a copy holds is not defined, and is *)
(* modelled as latencies_ followed by any part of that worker's samples.   *)
(***************************************************************************)
\* print_stats() entered: elapsed and throughput computed, the copy begun
StatsBegin ==
    /\ mainpc = "run"
    /\ mainpc' = "stats"
    /\ UNCHANGED <<num_workers, batch_size, shutdown_, total_processed_, queue_,
                   latencies_, mu_, lat_mu_, wpc, batch, done_time, calls,
                   submitted, recorded, late, clock, spurious, report>>

\* what the unlocked copy of latencies_ may hold
CopyOutcomes ==
    {latencies_} \cup
    UNION {{latencies_ \o SubSeq(BatchLatencies(batch[w], done_time[w]), 1, k) :
                k \in 0 .. Len(batch[w])} :
           w \in {x \in Workers : wpc[x] = "append"}}

\* the copy completed, sorted and indexed; total_processed_ loaded for output
StatsEnd ==
    /\ mainpc = "stats"
    /\ \E copy \in CopyOutcomes :
          LET sorted_lat == Sort(copy)
          IN report' = [processed |-> total_processed_,
                        p50 |-> Pct(sorted_lat, 50),
                        p95 |-> Pct(sorted_lat, 95),
                        p99 |-> Pct(sorted_lat, 99)]
    /\ mainpc' = "run"
    /\ UNCHANGED <<num_workers, batch_size, shutdown_, total_processed_, queue_,
                   latencies_, mu_, lat_mu_, wpc, batch, done_time, calls,
                   submitted, recorded, late, clock, spurious>>

\* the driver thread enqueues between its reports
ReportEnqueue == mainpc # "stats" /\ DriverEnqueue

NextReport ==
    \/ MainStep
    \/ StatsBegin
    \/ StatsEnd
    \/ ReportEnqueue
    \/ \E c \in calls : Push(c) \/ NotifyOne(c)
    \/ \E w \in Workers : WorkerStep(w) \/ SpuriousWakeup(w, FALSE)

SpecReport == Init /\ [][NextReport]_vars

(***************************************************************************)
(* print_stats on its own: a scheduler whose shutdown() has returned, with *)
(* any latency samples recorded.                                           *)
(***************************************************************************)
\* the sample set of the percentile example, in order and shuffled
ExampleSamples == <<1, 2, 3, 4, 5, 6, 7, 8, 9, 10>>
ExampleShuffled == <<7, 2, 10, 4, 1, 9, 3, 8, 6, 5>>
SampleSeqs ==
    UNION {[1 .. n -> 1 .. MaxLatency] : n \in 0 .. MaxSamples}
        \cup {ExampleSamples, ExampleShuffled}

RECURSIVE SeqMax(_)
SeqMax(s) ==
    IF s = <<>> THEN 0
    ELSE LET m == SeqMax(Tail(s)) IN IF Head(s) >= m THEN Head(s) ELSE m

InitPct ==
    /\ num_workers = 1
    /\ batch_size = 1
    /\ shutdown_ = TRUE
    /\ latencies_ \in SampleSeqs
    /\ total_processed_ = Len(latencies_)
    /\ queue_ = {}
    /\ mu_ = 0
    /\ lat_mu_ = 0
    /\ wpc = [w \in Workers |-> IF w <= 1 THEN "terminated" ELSE "unstarted"]
    /\ batch = [w \in Workers |-> <<>>]
    /\ done_time = [w \in Workers |-> 0]
    /\ mainpc = "joined"
    /\ calls = {}
    /\ submitted = Len(latencies_)
    /\ recorded = [u \in 1 .. Len(latencies_) |-> 1]
    /\ late = FALSE
    /\ clock = SeqMax(latencies_)
    /\ spurious = 0
    /\ report = NoReport

NextPct == PrintStats

SpecPct == InitPct /\ [][NextPct]_vars

(***************************************************************************)
(* Scheduling: a thread inside a call keeps running, so as long as some    *)
(* thread can take a step of the call it is in, a step is taken.  Nothing  *)
(* obliges a caller to call enqueue() or shutdown(), and nothing obliges a *)
(* wait to wake without a notification; spurious wakeups are finitely      *)
(* many.                                                                   *)
(***************************************************************************)
Progress ==
    \/ Construct
    \/ StartWorker
    \/ StartReturn
    \/ SetShutdown
    \/ NotifyAll
    \/ JoinWorkers
    \/ PrintStats
    \/ \E c \in calls : Push(c) \/ NotifyOne(c)
    \/ \E w \in Workers : WorkerStep(w)

LiveEnqueue == BeginEnqueue({submitted}, LiveRequests)

NextFair ==
    \/ Progress
    \/ CallShutdown
    \/ LiveEnqueue
    \/ \E w \in Workers : SpuriousWakeup(w, TRUE)

FairSpec == Init /\ [][NextFair]_vars /\ WF_vars(Progress)

(***************************************************************************)
(* Claims.                                                                 *)
(***************************************************************************)
Returned == mainpc \in {"joined", "done"}
ValidConfig == num_workers >= 1 /\ batch_size >= 1
Created(w) == w <= num_workers
InQueue(u) == \E r \in queue_ : r.uid = u
\* the batch a worker has pulled and not yet recorded
InFlight(w) == IF wpc[w] \in {"pull", "sleep", "record", "append"} THEN batch[w] ELSE <<>>
\* how many times request u is in the batches in flight of the workers in S
RECURSIVE InBatches(_, _)
InBatches(S, u) ==
    IF S = {} THEN 0
    ELSE LET w == CHOOSE y \in S : TRUE
         IN Occurrences(InFlight(w), u) + InBatches(S \ {w}, u)
\* the requests whose push has happened
Pushed == {u \in 1 .. submitted : \A c \in calls : c.pc = "push" => c.req.uid # u}
Places(u) ==
    Cardinality({r \in queue_ : r.uid = u}) + InBatches(Workers, u) + recorded[u]

\* C1: when shutdown() has returned and every enqueue() call was complete
\* before shutdown() was called, with at least one worker and batch size >= 1,
\* there are exactly as many latency samples as enqueue() calls, the processed
\* counter equals that number, and every request has contributed one sample.
C1_AllRecordedAtShutdown ==
    (Returned /\ ~late /\ ValidConfig) =>
        /\ Len(latencies_) = submitted
        /\ total_processed_ = submitted
        /\ \A u \in 1 .. submitted : recorded[u] = 1

C1_Witness ==
    /\ mainpc = "joined" /\ ~late /\ num_workers = 2 /\ batch_size = 1
    /\ submitted = MaxRequests /\ Len(latencies_) = MaxRequests

\* C2: every request whose push has happened is in exactly one place: pending
\* in the queue, in the batch one worker has pulled and not yet recorded, or
\* recorded; a request not yet pushed is nowhere.
C2_ExactlyOnePlace ==
    \A u \in 1 .. submitted : Places(u) = (IF u \in Pushed THEN 1 ELSE 0)

C2_Witness ==
    /\ \E w1, w2 \in Workers : w1 # w2 /\ InFlight(w1) # <<>> /\ InFlight(w2) # <<>>

\* C3: when a worker's pull loop has ended and it still holds mu_, every
\* request of its batch has priority >= every request left in the queue.
C3_BatchOutranksQueue ==
    \A w \in Workers :
        (wpc[w] = "pull" /\ mu_ = w /\ ~PullCond(w)) =>
            \A i \in DOMAIN batch[w] : \A q \in queue_ :
                batch[w][i].priority >= q.priority

C3_Witness ==
    \E w \in Workers :
        /\ wpc[w] = "pull" /\ mu_ = w /\ ~PullCond(w)
        /\ batch[w] # <<>>
        /\ \E q \in queue_ : batch[w][1].priority > q.priority

\* C4: a batch that holds requests never holds more than batch_size of them.
C4_BatchBound ==
    \A w \in Workers : batch[w] # <<>> => Len(batch[w]) <= batch_size

C4_Witness ==
    \E w \in Workers :
        /\ wpc[w] = "pull" /\ Len(batch[w]) = batch_size /\ queue_ # {}

\* C5: a step that takes a worker to terminated starts in a state where that
\* worker holds mu_, shutdown_ is set and the queue is empty.
C5_TerminateOnlyWhenDrained ==
    [][\A w \in Workers :
        (wpc[w] # "terminated" /\ wpc'[w] = "terminated") =>
            (mu_ = w /\ shutdown_ /\ queue_ = {})]_vars

C5_Witness ==
    \E w \in Workers : wpc[w] = "terminated" /\ total_processed_ = MaxRequests

\* C6: with a valid configuration, once shutdown() is called it returns, and
\* whenever it has returned every created worker is terminated.
C6_ShutdownReturns ==
    /\ (ValidConfig /\ mainpc = "shutdown") ~> Returned
    /\ [](Returned => \A w \in Workers : Created(w) => wpc[w] = "terminated")

C6_Witness ==
    /\ Returned /\ num_workers = 2 /\ batch_size >= 1 /\ total_processed_ = LiveRequests

\* C7: with a valid configuration, a request that is in the queue while
\* shutdown is not signaled is eventually pulled out of the queue.
C7_NoLostWakeup ==
    \A u \in 1 .. LiveRequests :
        (ValidConfig /\ ~shutdown_ /\ InQueue(u)) ~> ~InQueue(u)

C7_Witness ==
    /\ ~shutdown_ /\ ValidConfig /\ spurious = 0
    /\ \E w \in Workers : wpc[w] = "sleep" /\ InFlight(w) # <<>>
    /\ \E w \in Workers : wpc[w] = "woken"

\* C8: a scheduler that is past its constructor has a positive worker count
\* and a positive batch size.
C8_ConfigRejected == mainpc # "construct" => ValidConfig

\* C9: for N >= 1 samples each reported percentile is the element at index
\* min(floor(p * N), N - 1) of the samples in ascending order, that is, a
\* sample with at most that many samples below it and more than that many
\* not above it; for the samples 1..10, p50 is 6 and p95 is 10.
C9_PercentileByIndex ==
    (mainpc = "done" /\ latencies_ # <<>>) =>
        LET n == Len(latencies_)
            idx(p100) == IF (p100 * n) \div 100 < n - 1 THEN (p100 * n) \div 100 ELSE n - 1
            below(v) == Cardinality({i \in DOMAIN latencies_ : latencies_[i] < v})
            upTo(v) == Cardinality({i \in DOMAIN latencies_ : latencies_[i] <= v})
            isAt(v, k) ==
                /\ \E i \in DOMAIN latencies_ : latencies_[i] = v
                /\ below(v) <= k
                /\ upTo(v) > k
        IN /\ isAt(report.p50, idx(50))
           /\ isAt(report.p95, idx(95))
           /\ isAt(report.p99, idx(99))
           /\ latencies_ \in {ExampleSamples, ExampleShuffled} =>
                  (report.p50 = 6 /\ report.p95 = 10)

C9_Witness ==
    /\ mainpc = "done" /\ latencies_ = ExampleShuffled
    /\ report.p50 = 6 /\ report.p95 = 10

\* C10: no two requests the scheduler holds (pending or in a batch) carry the
\* same identifier.
C10_FreshIds ==
    LET held == queue_ \cup UNION {{batch[w][i] : i \in DOMAIN batch[w]} : w \in Workers}
    IN \A a, b \in held : a.uid # b.uid => a.id # b.id

\* C11: the cost of the batch a worker sleeps for is the per-token
\* coefficient times the sum over the batch of max(token_count, 0).
C11_NegativeSizeCostsNothing ==
    \A w \in Workers :
        wpc[w] = "sleep" =>
            LET clamped(i) == IF batch[w][i].token_count > 0
                              THEN batch[w][i].token_count ELSE 0
                sum[k \in 0 .. Len(batch[w])] ==
                    IF k = 0 THEN 0 ELSE sum[k - 1] + clamped(k)
            IN SimMicros(batch[w]) = MicrosPerToken * sum[Len(batch[w])]

\* C12: the reporter never reads the latency collection while a worker is
\* appending to it; the metrics mutex excludes the read from the append.
C12_ReadExcludedFromAppend ==
    ~(mainpc = "stats" /\ \E w \in Workers : wpc[w] = "append")

\* C13: no worker holds the queue mutex during its simulated-processing
\* sleep: while a worker sleeps, mu_ is free or held by another thread.
C13_SleepWithoutQueueLock ==
    \A w \in Workers : wpc[w] = "sleep" => mu_ # w

\* one worker sleeps on its batch while another holds mu_
C13_Witness ==
    \E w, v \in Workers :
        /\ w # v
        /\ wpc[w] = "sleep"
        /\ batch[w] # <<>>
        /\ mu_ = v

\* C14: no thread holds mu_ and lat_mu_ together; a worker appending samples
\* holds only lat_mu_, and no thread waits for one of the two mutexes while
\* holding the other.
C14_MutexesNeverNested ==
    \A w \in Workers :
        /\ ~(mu_ = w /\ lat_mu_ = w)
        /\ wpc[w] = "append" => (lat_mu_ = w /\ mu_ # w)
        /\ wpc[w] = "record" => mu_ # w
        /\ wpc[w] = "lock" => lat_mu_ # w

\* one worker appends under lat_mu_ while another holds mu_ to pull
C14_Witness ==
    \E w, v \in Workers :
        /\ w # v
        /\ wpc[w] = "append"
        /\ lat_mu_ = w
        /\ wpc[v] = "pull"
        /\ mu_ = v

\* C15: a worker appends the samples of its whole batch before it adds the
\* batch length to total_processed_: the counter never exceeds the number of
\* samples, equals it whenever no worker is between its recording and its
\* increment, never decreases, and latencies_ only grows at its end.
C15_SamplesBeforeCount ==
    /\ [](/\ total_processed_ <= Len(latencies_)
          /\ (\A w \in Workers : wpc[w] \notin {"append", "count"}) =>
                total_processed_ = Len(latencies_))
    /\ [][/\ total_processed_' >= total_processed_
          /\ Len(latencies_') >= Len(latencies_)
          /\ SubSeq(latencies_', 1, Len(latencies_)) = latencies_]_vars

\* a worker has recorded its second batch and not yet counted it
C15_Witness ==
    \E w \in Workers :
        /\ wpc[w] = "count"
        /\ total_processed_ >= 1
        /\ Len(latencies_) = total_processed_ + Len(batch[w])

\* C16: the step that sets shutdown_ leaves the queue, the samples, the
\* counter and the workers' batches as they are, and shutdown_ once set
\* stays set.
C16_SignalChangesOnlyFlag ==
    [][/\ shutdown_' # shutdown_ =>
            /\ shutdown_' = TRUE
            /\ queue_' = queue_
            /\ latencies_' = latencies_
            /\ total_processed_' = total_processed_
            /\ batch' = batch
       /\ shutdown_ => shutdown_']_vars

\* shutdown has just been signaled with requests still pending
C16_Witness ==
    /\ mainpc = "notify_all"
    /\ shutdown_
    /\ queue_ # {}

\* C17: with batch_size >= 1, a worker that leaves the pull loop, having held
\* mu_ since it passed the wait with n pending requests, has a non-empty batch
\* of exactly min(batch_size, n) requests, the queue having lost exactly
\* those; a worker past the pull never carries an empty batch.
C17_GreedyNonEmptyBatch ==
    /\ [](\A w \in Workers :
            /\ (batch_size >= 1 /\ wpc[w] = "pull" /\ ~PullCond(w)) =>
                  /\ batch[w] # <<>>
                  /\ Len(batch[w]) =
                        Min(batch_size, Len(batch[w]) + Cardinality(queue_))
            /\ wpc[w] \in {"sleep", "record", "append", "count"} =>
                  batch[w] # <<>>)
    /\ [][\A w \in Workers :
            (wpc[w] = "pull" /\ wpc'[w] = "pull") =>
                /\ queue_' \subseteq queue_
                /\ Len(batch'[w]) + Cardinality(queue_') =
                      Len(batch[w]) + Cardinality(queue_)]_vars

\* a worker ends its pull with a full batch of two
C17_Witness ==
    \E w \in Workers :
        /\ wpc[w] = "pull" /\ ~PullCond(w)
        /\ batch_size = 2
        /\ Len(batch[w]) = 2

\* C18: once shutdown() has returned, an enqueue() call still gets its
\* request into the queue, and from then on nothing leaves the queue, no
\* batch changes, and no sample or count is added.
C18_LateRequestStaysPending ==
    /\ [](Returned => \A c \in calls : c.pc = "push" => ENABLED Push(c))
    /\ [][Returned =>
            /\ queue_ \subseteq queue_'
            /\ batch' = batch
            /\ latencies_' = latencies_
            /\ total_processed_' = total_processed_]_vars

\* shutdown() has returned from a scheduler that processed a request, and a
\* request pushed afterwards is pending with every enqueue() call complete
C18_Witness ==
    /\ Returned
    /\ num_workers >= 1
    /\ total_processed_ >= 1
    /\ calls = {}
    /\ queue_ # {}

\* C19: every recorded latency sample is non-negative: a request's enqueue
\* timestamp is never ahead of the clock, and the completion timestamp a
\* worker holds is never before the enqueue timestamp of a request of its
\* batch.
C19_LatencyNonNegative ==
    /\ \A i \in 1 .. Len(latencies_) : latencies_[i] >= 0
    /\ \A c \in calls : c.req.enqueue_time_ms <= now_ms
    /\ \A r \in queue_ : r.enqueue_time_ms <= now_ms
    /\ \A w \in Workers :
          wpc[w] \in {"record", "append", "count"} =>
              \A i \in 1 .. Len(batch[w]) :
                  batch[w][i].enqueue_time_ms <= done_time[w]

\* time passed between a request's enqueue() and the end of its processing:
\* it was recorded with a positive latency
C19_Witness ==
    \E i \in 1 .. Len(latencies_) : latencies_[i] >= 1

====
